---- MODULE Spec2Model ----
(***************************************************************************)
(* A model of two parts of the ZenML server.                               *)
(*                                                                         *)
(*  1. Alembic migration 41b28cae31ce ("make artifacts workspace scoped"): *)
(*     the artifact table, its columns, constraints and rows, the          *)
(*     workspace and user tables it references, and upgrade() and          *)
(*     downgrade() statement by statement (SpecMigration).                 *)
(*                                                                         *)
(*  2. The REST routers for code repositories and pipeline deployments:    *)
(*     one request at a time, from routing and authentication through the  *)
(*     handler body to the response, with a log of the calls the handler   *)
(*     makes to its collaborators (SpecApi).                               *)
(***************************************************************************)
EXTENDS Integers, FiniteSets, Sequences, TLC

(* ------------------------------ bounds -------------------------------- *)

\* Number of workspace ids.
NumWs == 2

\* Number of user ids.
NumUsers == 1

\* Number of artifact ids.
NumArts == 2

\* Number of ids per REST resource type.
NumEntities == 2

WsIds == 1..NumWs

UserIds == 1..NumUsers

ArtIds == 1..NumArts

(* ------------------------- values and schema -------------------------- *)

\* SQL NULL / Python None in an id-valued column or variable.
NULL == 0

\* zenml.constants.DEFAULT_WORKSPACE_NAME.
DEFAULT_WORKSPACE_NAME == "default"

\* The environment variable is not set.
UNSET == "<unset>"

WorkspaceNames == {"default", "custom"}

\* Values of a payload column (artifact.name, a request's name).
Payloads == {"a", "b"}

revision == "41b28cae31ce"

down_revision == "288f4fb6e112"

fk_artifact_workspace_id_workspace == "fk_artifact_workspace_id_workspace"

fk_artifact_user_id_user == "fk_artifact_user_id_user"

\* ondelete rule of fk_artifact_workspace_id_workspace.
WorkspaceOnDelete == "CASCADE"

\* Mutant of UserOnDelete: the user key cascades like the workspace key.
UserOnDelete_Cascade == "CASCADE"

\* ondelete rule of fk_artifact_user_id_user.
UserOnDelete == "SET NULL"

\* The columns upgrade() adds to the artifact table.
AddedColumns == {"workspace_id", "user_id"}

\* The columns of the artifact table at revision 288f4fb6e112 (the ones the
\* migration does not touch; "name" stands for all of them).
BaseColumns == {"id", "name"}

VARIABLES
    \* ---- the database
    workspace,            \* workspace table: id -> name, names unique
    user,                 \* user table: set of ids
    artifact,             \* artifact table: id -> row (a record over columns)
    columns,              \* columns of the artifact table
    nonnull,              \* columns of the artifact table declared NOT NULL
    fks,                  \* foreign-key constraints of the artifact table
    \* ---- the migration run
    env,                  \* value of ENV_ZENML_DEFAULT_WORKSPACE_NAME
    version,              \* alembic's current revision of the database
    pc,                   \* position inside upgrade()
    default_workspace_id, \* local of upgrade(), NULL outside it
    outcome,              \* how the last command run on the database ended
    hist,                 \* history: tables before and after the first upgrade
    \* ---- the REST server
    resource,             \* the resource type whose router and table these are
    workload_manager_enabled, \* server_config().workload_manager_enabled
    entities,             \* the store's table of the resource: id -> entity
    req,                  \* the request being handled
    model,                \* the request/filter model the handler holds
    api_pc,               \* position of the request
    calls,                \* calls made for the current request, in order
    response,             \* the response of the current request
    page                  \* ids in the page a list request returned

dbvars == <<workspace, user, artifact, columns, nonnull, fks>>

migvars == <<env, version, pc, default_workspace_id, outcome, hist>>

apivars == <<resource, workload_manager_enabled, entities, req, model, api_pc, calls,
             response, page>>

vars == <<dbvars, migvars, apivars>>

(* ------------------------------ tables -------------------------------- *)

EmptyTable == [i \in {} |-> NULL]

\* Workspace tables: partial maps from ids to names, names unique.
WorkspaceTables ==
    UNION {{f \in [D -> WorkspaceNames] :
                \A a, b \in D : f[a] = f[b] => a = b} : D \in SUBSET WsIds}

\* Artifact tables at revision 288f4fb6e112.
BaseArtifactTables ==
    UNION {[D -> [name : Payloads]] : D \in SUBSET ArtIds}

\* add_column(..., nullable=True): existing rows get NULL in the new columns.
AddColumns(row) ==
    [name |-> row.name, workspace_id |-> NULL, user_id |-> NULL]

\* Mutant of DropColumns: drop_column("workspace_id") is forgotten.
DropColumns_KeepWorkspaceId(row) ==
    [name |-> row.name, workspace_id |-> row.workspace_id]

\* drop_column("user_id"), drop_column("workspace_id").
DropColumns(row) == [name |-> row.name]

\* os.getenv(name, default)
getenv(value, default) == IF value = UNSET THEN default ELSE value

\* SELECT id FROM workspace WHERE name = :n LIMIT 1, .scalar()
SelectWorkspaceId(n) ==
    IF \E w \in DOMAIN workspace : workspace[w] = n
    THEN CHOOSE w \in DOMAIN workspace : workspace[w] = n
    ELSE NULL

NoHist == [stage |-> "none", pre |-> EmptyTable, first |-> EmptyTable]

(* ---------------------------- upgrade() ------------------------------- *)

\* Lines 31-40: the first batch_alter_table block adds both columns as
\* nullable. The database rejects a column that already exists.
UpgradeAddColumns ==
    /\ pc = "idle"
    /\ version = down_revision
    /\ IF AddedColumns \cap columns # {}
       THEN /\ outcome' = "duplicate_column"
            /\ hist' = NoHist
            /\ UNCHANGED <<dbvars, pc>>
       ELSE /\ columns' = columns \cup AddedColumns
            /\ artifact' = [a \in DOMAIN artifact |-> AddColumns(artifact[a])]
            /\ pc' = "lookup"
            /\ outcome' = "running"
            /\ hist' = IF hist.stage = "down"
                       THEN [hist EXCEPT !.stage = "run2"]
                       ELSE [stage |-> "run1", pre |-> artifact,
                             first |-> EmptyTable]
            /\ UNCHANGED <<workspace, user, nonnull, fks>>
    /\ UNCHANGED <<env, version, default_workspace_id, apivars>>

\* Lines 49-60: the default workspace's name and the lookup of its id.
UpgradeLookup ==
    /\ pc = "lookup"
    /\ default_workspace_id' =
           SelectWorkspaceId(getenv(env, DEFAULT_WORKSPACE_NAME))
    /\ pc' = "check"
    /\ UNCHANGED <<dbvars, env, version, outcome, hist, apivars>>

\* Lines 62-65: no default workspace. The exception ends upgrade(); nothing
\* in upgrade() undoes the columns already added. Whether they stay depends
\* on the backend: with transactional DDL the enclosing transaction rolls
\* them back, otherwise (MySQL, SQLite under alembic's defaults) they stay.
UpgradeRaise ==
    /\ pc = "check"
    /\ default_workspace_id = NULL
    /\ \/ UNCHANGED <<columns, artifact>>
       \/ /\ columns' = columns \ AddedColumns
          /\ artifact' = [a \in DOMAIN artifact |-> DropColumns(artifact[a])]
    /\ pc' = "idle"
    /\ outcome' = "no_default_workspace"
    /\ hist' = NoHist
    /\ default_workspace_id' = NULL
    /\ UNCHANGED <<workspace, user, nonnull, fks, env, version, apivars>>

\* Mutant of UpgradeBackfill: the UPDATE is left out.
UpgradeBackfill_NoUpdate ==
    /\ pc = "check"
    /\ default_workspace_id # NULL
    /\ pc' = "tighten"
    /\ UNCHANGED <<dbvars, env, version, default_workspace_id, outcome, hist,
                   apivars>>

\* Lines 67-70: UPDATE artifact SET workspace_id = :default_workspace_id
UpgradeBackfill ==
    /\ pc = "check"
    /\ default_workspace_id # NULL
    /\ artifact' = [a \in DOMAIN artifact |->
                       [artifact[a] EXCEPT !.workspace_id = default_workspace_id]]
    /\ pc' = "tighten"
    /\ UNCHANGED <<workspace, user, columns, nonnull, fks, env, version,
                   default_workspace_id, outcome, hist, apivars>>

\* The rows a NOT NULL workspace_id and the two foreign keys would reject.
TightenRejects ==
    \E a \in DOMAIN artifact :
        \/ artifact[a].workspace_id = NULL
        \/ artifact[a].workspace_id \notin DOMAIN workspace
        \/ artifact[a].user_id \notin user \cup {NULL}

\* Lines 72-94: the second batch_alter_table block makes workspace_id
\* non-nullable and creates the two foreign keys. The database rejects the
\* block if an existing row violates one of the new constraints.
UpgradeTighten ==
    /\ pc = "tighten"
    /\ IF TightenRejects
       THEN /\ outcome' = "integrity_error"
            /\ hist' = NoHist
            /\ UNCHANGED <<nonnull, fks, version>>
       ELSE /\ nonnull' = nonnull \cup {"workspace_id"}
            /\ fks' = fks \cup {fk_artifact_workspace_id_workspace,
                                fk_artifact_user_id_user}
            /\ version' = revision
            /\ outcome' = "upgraded"
            /\ hist' = IF hist.stage = "run1"
                       THEN [hist EXCEPT !.stage = "up1", !.first = artifact]
                       ELSE [hist EXCEPT !.stage = "up2"]
    /\ pc' = "idle"
    /\ default_workspace_id' = NULL
    /\ UNCHANGED <<workspace, user, artifact, columns, env, apivars>>

(* --------------------------- downgrade() ------------------------------ *)

\* Lines 100-108: one batch_alter_table block drops both foreign keys and
\* both columns.
Downgrade ==
    /\ pc = "idle"
    /\ version = revision
    /\ fks' = fks \ {fk_artifact_user_id_user,
                     fk_artifact_workspace_id_workspace}
    /\ columns' = columns \ {"user_id", "workspace_id"}
    /\ nonnull' = nonnull \ {"user_id", "workspace_id"}
    /\ artifact' = [a \in DOMAIN artifact |-> DropColumns(artifact[a])]
    /\ version' = down_revision
    /\ outcome' = "downgraded"
    /\ hist' = IF hist.stage = "up1"
               THEN [hist EXCEPT !.stage = "down"]
               ELSE NoHist
    /\ UNCHANGED <<workspace, user, env, pc, default_workspace_id, apivars>>

(* ------------------- the database between migrations ------------------ *)

\* The rows of the artifact table the schema accepts for insertion.
AcceptedRows ==
    IF AddedColumns \subseteq columns
    THEN {r \in [name : Payloads, workspace_id : WsIds \cup {NULL},
                 user_id : UserIds \cup {NULL}] :
            /\ "workspace_id" \in nonnull => r.workspace_id # NULL
            /\ fk_artifact_workspace_id_workspace \in fks =>
                   r.workspace_id \in DOMAIN workspace \cup {NULL}
            /\ fk_artifact_user_id_user \in fks =>
                   r.user_id \in user \cup {NULL}}
    ELSE [name : Payloads]

\* INSERT INTO artifact: any new row the schema accepts.
InsertArtifact ==
    /\ pc = "idle"
    /\ \E a \in ArtIds \ DOMAIN artifact : \E r \in AcceptedRows :
           artifact' = [x \in DOMAIN artifact \cup {a} |->
                           IF x = a THEN r ELSE artifact[x]]
    /\ outcome' = "inserted"
    /\ hist' = NoHist
    /\ UNCHANGED <<workspace, user, columns, nonnull, fks, env, version, pc,
                   default_workspace_id, apivars>>

\* What deleting the parent row `key` does to the rows of table `t` whose
\* column `col` references it, under the ondelete rule `rule`.
OnDelete(rule, t, col, key) ==
    CASE rule = "CASCADE" ->
             [a \in {x \in DOMAIN t : t[x][col] # key} |-> t[a]]
      [] rule = "SET NULL" ->
             [a \in DOMAIN t |->
                 IF t[a][col] = key THEN [t[a] EXCEPT ![col] = NULL] ELSE t[a]]
      [] OTHER -> t

\* Whether the database lets the parent row `key` be deleted: SET NULL needs
\* a nullable column, and a rule other than CASCADE or SET NULL (NO ACTION)
\* needs that no row references the parent.
DeleteAllowed(rule, t, col, key) ==
    CASE rule = "CASCADE" -> TRUE
      [] rule = "SET NULL" ->
             col \in nonnull => \A a \in DOMAIN t : t[a][col] # key
      [] OTHER -> \A a \in DOMAIN t : t[a][col] # key

\* DELETE FROM workspace WHERE id = w
DeleteWorkspace(w) ==
    /\ pc = "idle"
    /\ w \in DOMAIN workspace
    /\ IF fk_artifact_workspace_id_workspace \in fks
       THEN /\ DeleteAllowed(WorkspaceOnDelete, artifact, "workspace_id", w)
            /\ artifact' = OnDelete(WorkspaceOnDelete, artifact,
                                    "workspace_id", w)
       ELSE UNCHANGED artifact
    /\ workspace' = [x \in DOMAIN workspace \ {w} |-> workspace[x]]
    /\ outcome' = "workspace_deleted"
    /\ hist' = NoHist
    /\ UNCHANGED <<user, columns, nonnull, fks, env, version, pc,
                   default_workspace_id, apivars>>

\* DELETE FROM user WHERE id = u
DeleteUser(u) ==
    /\ pc = "idle"
    /\ u \in user
    /\ IF fk_artifact_user_id_user \in fks
       THEN /\ DeleteAllowed(UserOnDelete, artifact, "user_id", u)
            /\ artifact' = OnDelete(UserOnDelete, artifact, "user_id", u)
       ELSE UNCHANGED artifact
    /\ user' = user \ {u}
    /\ outcome' = "user_deleted"
    /\ hist' = NoHist
    /\ UNCHANGED <<workspace, columns, nonnull, fks, env, version, pc,
                   default_workspace_id, apivars>>

(* --------------------------- the REST server -------------------------- *)

EntityIds == 1..NumEntities

CODE_REPOSITORY == "code_repository"

PIPELINE_DEPLOYMENT == "pipeline_deployment"

\* No workspace_name_or_id in the URL (the unscoped route).
NoUrl == [kind |-> "none", id |-> NULL, name |-> ""]

\* Values of workspace_name_or_id: absent, an id, or a name.
UrlArgs ==
    {NoUrl}
    \cup {[kind |-> "id", id |-> w, name |-> ""] : w \in WsIds}
    \cup {[kind |-> "name", id |-> NULL, name |-> n] : n \in WorkspaceNames}

NoRequest ==
    [op |-> "none", url |-> NoUrl, workspace |-> NULL, name |-> "a",
     id |-> NULL, scope |-> NULL]

\* The requests a client can send to a router.
Requests ==
    {[NoRequest EXCEPT !.op = "create", !.url = u, !.workspace = w,
                       !.name = n] :
        u \in UrlArgs, w \in WsIds, n \in Payloads}
    \cup {[NoRequest EXCEPT !.op = "list", !.url = u, !.scope = w] :
             u \in UrlArgs, w \in WsIds \cup {NULL}}
    \cup {[NoRequest EXCEPT !.op = o, !.id = i] :
             o \in {"get", "delete", "logs"}, i \in EntityIds}
    \cup {[NoRequest EXCEPT !.op = "update", !.id = i, !.name = n] :
             i \in EntityIds, n \in Payloads}

\* The objects the handler holds: the request model's workspace and name, the
\* filter model's workspace scope, and the entity a get returned.
NoModel == [workspace |-> NULL, name |-> "a", scope |-> NULL, fetched |-> NULL]

Call(fn, ws, id, ok) == [fn |-> fn, ws |-> ws, id |-> id, ok |-> ok]

ApiIdle ==
    /\ resource = CODE_REPOSITORY
    /\ workload_manager_enabled = FALSE
    /\ entities = EmptyTable
    /\ req = NoRequest
    /\ model = NoModel
    /\ api_pc = "idle"
    /\ calls = <<>>
    /\ response = "none"
    /\ page = {}

\* The migration is not running and the schema is that of revision
\* 41b28cae31ce.
MigrationIdle ==
    /\ user = UserIds
    /\ artifact = EmptyTable
    /\ columns = BaseColumns \cup AddedColumns
    /\ nonnull = {"id", "workspace_id"}
    /\ fks = {fk_artifact_workspace_id_workspace, fk_artifact_user_id_user}
    /\ env = UNSET
    /\ version = revision
    /\ pc = "idle"
    /\ default_workspace_id = NULL
    /\ outcome = "none"
    /\ hist = NoHist

\* What no request changes: the router's configuration, and the database
\* tables and migration state of the first part.
apistatic == <<resource, workload_manager_enabled, dbvars, migvars>>

\* zen_store().get_workspace(workspace_name_or_id): the workspace with that
\* id or that name; NULL stands for the KeyError of a workspace not found.
get_workspace(u) ==
    IF u.kind = "id"
    THEN IF u.id \in DOMAIN workspace THEN u.id ELSE NULL
    ELSE SelectWorkspaceId(u.name)

\* The routes the routers register: the decorated handlers of each module,
\* and deployment_logs only under server_config().workload_manager_enabled.
RouteExists(kind, op) ==
    IF kind = CODE_REPOSITORY
    THEN op \in {"create", "list", "get", "update", "delete"}
    ELSE \/ op \in {"create", "list", "get", "delete"}
         \/ op = "logs" /\ workload_manager_enabled

\* A request arrives and is routed. A create request is sent only while the
\* table has a free id.
Receive ==
    /\ api_pc = "idle"
    /\ \E r \in Requests :
           /\ r.op = "create" => EntityIds \ DOMAIN entities # {}
           /\ req' = r
           /\ model' = [NoModel EXCEPT !.workspace = r.workspace,
                                       !.name = r.name, !.scope = r.scope]
           /\ IF RouteExists(resource, r.op)
              THEN api_pc' = "authorize" /\ response' = "none"
              ELSE api_pc' = "done" /\ response' = "no_route"
    /\ calls' = <<>>
    /\ page' = {}
    /\ UNCHANGED <<entities, apistatic>>

\* _: AuthContext = Security(authorize): the dependency runs before the
\* handler body; a request that is not authenticated ends in 401.
Authorize ==
    /\ api_pc = "authorize"
    /\ \E ok \in BOOLEAN :
           /\ calls' = Append(calls, Call("authorize", NULL, NULL, ok))
           /\ IF ok
              THEN api_pc' = "handler" /\ UNCHANGED response
              ELSE api_pc' = "done" /\ response' = "401"
    /\ UNCHANGED <<entities, req, model, page, apistatic>>

\* verify_permissions_and_create_entity(request_model, resource_type,
\* create_method): the permission check, then create_method(request_model).
\* `allowed` is the RBAC decision and `i` the id the store gives the entity;
\* the store rejects a workspace that does not exist (KeyError).
verify_permissions_and_create_entity(request_model, allowed, i) ==
    LET checked == Append(calls,
                       Call("verify_permission", request_model.workspace,
                            NULL, allowed))
        exists == request_model.workspace \in DOMAIN workspace
    IN  IF ~allowed
        THEN /\ calls' = checked
             /\ response' = "403"
             /\ UNCHANGED <<entities, page>>
        ELSE /\ calls' = Append(checked,
                              Call("create", request_model.workspace, i,
                                   exists))
             /\ IF exists
                THEN /\ entities' =
                            [x \in DOMAIN entities \cup {i} |->
                                IF x = i
                                THEN [workspace |-> request_model.workspace,
                                      name |-> request_model.name]
                                ELSE entities[x]]
                     /\ response' = "200"
                     /\ page' = {i}
                ELSE /\ response' = "404"
                     /\ UNCHANGED <<entities, page>>

\* verify_permissions_and_list_entities(filter_model, resource_type,
\* list_method): list_method(filter_model) restricted to the ids the user may
\* read; the store returns the entities in the filter's workspace scope.
verify_permissions_and_list_entities(filter_model, allowed_ids) ==
    /\ calls' = Append(calls, Call("list", filter_model.scope, NULL, TRUE))
    /\ page' = {x \in DOMAIN entities \cap allowed_ids :
                   filter_model.scope # NULL =>
                       entities[x].workspace = filter_model.scope}
    /\ response' = "200"
    /\ UNCHANGED entities

\* verify_permissions_and_get_entity(id, get_method): get_method(id), a
\* KeyError (404) if there is none, then the permission check on the entity
\* (403 if denied). The calls made and the response so far.
verify_permissions_and_get_entity(id, allowed) ==
    IF id \notin DOMAIN entities
    THEN [calls |-> Append(calls, Call("get", NULL, id, FALSE)),
          response |-> "404"]
    ELSE [calls |-> Append(Append(calls,
                               Call("get", entities[id].workspace, id, TRUE)),
                        Call("verify_permission", entities[id].workspace,
                             id, allowed)),
          response |-> IF allowed THEN "200" ELSE "403"]

\* Mutant of CreateResolve: the workspace is looked up but the request's
\* workspace field is not rewritten.
CreateResolve_NoRewrite(kind) ==
    /\ resource = kind
    /\ api_pc = "handler"
    /\ req.op = "create"
    /\ IF req.url.kind # "none"
       THEN LET w == get_workspace(req.url)
            IN  /\ calls' = Append(calls,
                                  Call("get_workspace", w, NULL, w # NULL))
                /\ IF w # NULL
                   THEN /\ api_pc' = "delegate"
                        /\ UNCHANGED <<model, response>>
                   ELSE /\ api_pc' = "done"
                        /\ response' = "404"
                        /\ UNCHANGED model
       ELSE /\ api_pc' = "delegate"
            /\ UNCHANGED <<calls, model, response>>
    /\ UNCHANGED <<entities, req, page, apistatic>>

\* Mutant of CreateResolve: a workspace that is not found is ignored and the
\* request goes on with the workspace of its body.
CreateResolve_IgnoreMissing(kind) ==
    /\ resource = kind
    /\ api_pc = "handler"
    /\ req.op = "create"
    /\ IF req.url.kind # "none"
       THEN LET w == get_workspace(req.url)
            IN  /\ calls' = Append(calls,
                                  Call("get_workspace", w, NULL, w # NULL))
                /\ model' = IF w # NULL
                            THEN [model EXCEPT !.workspace = w]
                            ELSE model
                /\ api_pc' = "delegate"
                /\ UNCHANGED response
       ELSE /\ api_pc' = "delegate"
            /\ UNCHANGED <<calls, model, response>>
    /\ UNCHANGED <<entities, req, page, apistatic>>

\* if workspace_name_or_id: workspace = get_workspace(...);
\* <request>.workspace = workspace.id
CreateResolve(kind) ==
    /\ resource = kind
    /\ api_pc = "handler"
    /\ req.op = "create"
    /\ IF req.url.kind # "none"
       THEN LET w == get_workspace(req.url)
            IN  /\ calls' = Append(calls,
                                  Call("get_workspace", w, NULL, w # NULL))
                /\ IF w # NULL
                   THEN /\ model' = [model EXCEPT !.workspace = w]
                        /\ api_pc' = "delegate"
                        /\ UNCHANGED response
                   ELSE /\ api_pc' = "done"
                        /\ response' = "404"
                        /\ UNCHANGED model
       ELSE /\ api_pc' = "delegate"
            /\ UNCHANGED <<calls, model, response>>
    /\ UNCHANGED <<entities, req, page, apistatic>>

\* return verify_permissions_and_create_entity(request_model=..., ...)
CreateDelegate(kind) ==
    /\ resource = kind
    /\ api_pc = "delegate"
    /\ req.op = "create"
    /\ \E allowed \in BOOLEAN : \E i \in EntityIds \ DOMAIN entities :
           verify_permissions_and_create_entity(model, allowed, i)
    /\ api_pc' = "done"
    /\ UNCHANGED <<req, model, apistatic>>

\* Mutant of ListResolve: the workspace is looked up but the filter is not
\* scoped to it.
ListResolve_NoScope(kind) ==
    /\ resource = kind
    /\ api_pc = "handler"
    /\ req.op = "list"
    /\ IF req.url.kind # "none"
       THEN LET w == get_workspace(req.url)
            IN  /\ calls' = Append(calls,
                                  Call("get_workspace", w, NULL, w # NULL))
                /\ IF w # NULL
                   THEN /\ api_pc' = "delegate"
                        /\ UNCHANGED <<model, response>>
                   ELSE /\ api_pc' = "done"
                        /\ response' = "404"
                        /\ UNCHANGED model
       ELSE /\ api_pc' = "delegate"
            /\ UNCHANGED <<calls, model, response>>
    /\ UNCHANGED <<entities, req, page, apistatic>>

\* if workspace_name_or_id: workspace = get_workspace(...);
\* <filter>.set_scope_workspace(workspace.id)
ListResolve(kind) ==
    /\ resource = kind
    /\ api_pc = "handler"
    /\ req.op = "list"
    /\ IF req.url.kind # "none"
       THEN LET w == get_workspace(req.url)
            IN  /\ calls' = Append(calls,
                                  Call("get_workspace", w, NULL, w # NULL))
                /\ IF w # NULL
                   THEN /\ model' = [model EXCEPT !.scope = w]
                        /\ api_pc' = "delegate"
                        /\ UNCHANGED response
                   ELSE /\ api_pc' = "done"
                        /\ response' = "404"
                        /\ UNCHANGED model
       ELSE /\ api_pc' = "delegate"
            /\ UNCHANGED <<calls, model, response>>
    /\ UNCHANGED <<entities, req, page, apistatic>>

\* return verify_permissions_and_list_entities(filter_model=..., ...)
ListDelegate(kind) ==
    /\ resource = kind
    /\ api_pc = "delegate"
    /\ req.op = "list"
    /\ \E allowed_ids \in SUBSET EntityIds :
           verify_permissions_and_list_entities(model, allowed_ids)
    /\ api_pc' = "done"
    /\ UNCHANGED <<req, model, apistatic>>

\* Mutant of GetEntity: the get route is wired to the delete helper.
GetEntity_Deletes(kind) ==
    /\ resource = kind
    /\ api_pc = "handler"
    /\ req.op = "get"
    /\ \E allowed \in BOOLEAN :
           LET got == verify_permissions_and_get_entity(req.id, allowed)
           IN  /\ response' = got.response
               /\ IF got.response = "200"
                  THEN /\ calls' = Append(got.calls,
                                         Call("delete", NULL, req.id, TRUE))
                       /\ entities' = [x \in DOMAIN entities \ {req.id} |->
                                          entities[x]]
                  ELSE /\ calls' = got.calls
                       /\ UNCHANGED entities
    /\ api_pc' = "done"
    /\ UNCHANGED <<req, model, page, apistatic>>

\* return verify_permissions_and_get_entity(id=..., get_method=...)
GetEntity(kind) ==
    /\ resource = kind
    /\ api_pc = "handler"
    /\ req.op = "get"
    /\ \E allowed \in BOOLEAN :
           LET got == verify_permissions_and_get_entity(req.id, allowed)
           IN  /\ calls' = got.calls
               /\ response' = got.response
               /\ page' = IF got.response = "200" THEN {req.id} ELSE {}
    /\ api_pc' = "done"
    /\ UNCHANGED <<entities, req, model, apistatic>>

\* verify_permissions_and_delete_entity(id, get_method, delete_method): the
\* permission-checked get, then delete_method(id).
DeleteEntity(kind) ==
    /\ resource = kind
    /\ api_pc = "handler"
    /\ req.op = "delete"
    /\ \E allowed \in BOOLEAN :
           LET got == verify_permissions_and_get_entity(req.id, allowed)
           IN  /\ response' = got.response
               /\ IF got.response = "200"
                  THEN /\ calls' = Append(got.calls,
                                         Call("delete", NULL, req.id, TRUE))
                       /\ entities' = [x \in DOMAIN entities \ {req.id} |->
                                          entities[x]]
                  ELSE /\ calls' = got.calls
                       /\ UNCHANGED entities
    /\ api_pc' = "done"
    /\ UNCHANGED <<req, model, page, apistatic>>

\* verify_permissions_and_update_entity(id, update_model, get_method,
\* update_method): the permission-checked get, then update_method(id, update).
UpdateEntity(kind) ==
    /\ resource = kind
    /\ api_pc = "handler"
    /\ req.op = "update"
    /\ \E allowed \in BOOLEAN :
           LET got == verify_permissions_and_get_entity(req.id, allowed)
           IN  /\ response' = got.response
               /\ IF got.response = "200"
                  THEN /\ calls' = Append(got.calls,
                                         Call("update", NULL, req.id, TRUE))
                       /\ entities' = [entities EXCEPT
                                          ![req.id].name = model.name]
                       /\ page' = {req.id}
                  ELSE /\ calls' = got.calls
                       /\ UNCHANGED <<entities, page>>
    /\ api_pc' = "done"
    /\ UNCHANGED <<req, model, apistatic>>

\* Mutant of LogsFetch: the result of the permission-checked get is not
\* waited for, the logs are fetched for the id of the URL.
LogsFetch_Unchecked ==
    /\ resource = PIPELINE_DEPLOYMENT
    /\ api_pc = "handler"
    /\ req.op = "logs"
    /\ \E allowed \in BOOLEAN :
           LET got == verify_permissions_and_get_entity(req.id, allowed)
           IN  /\ calls' = got.calls
               /\ model' = [model EXCEPT !.fetched = req.id]
               /\ api_pc' = "logs"
               /\ UNCHANGED response
    /\ UNCHANGED <<entities, req, page, apistatic>>

\* deployment = verify_permissions_and_get_entity(id=deployment_id, ...)
LogsFetch ==
    /\ resource = PIPELINE_DEPLOYMENT
    /\ api_pc = "handler"
    /\ req.op = "logs"
    /\ \E allowed \in BOOLEAN :
           LET got == verify_permissions_and_get_entity(req.id, allowed)
           IN  /\ calls' = got.calls
               /\ IF got.response = "200"
                  THEN /\ model' = [model EXCEPT !.fetched = req.id]
                       /\ api_pc' = "logs"
                       /\ UNCHANGED response
                  ELSE /\ api_pc' = "done"
                       /\ response' = got.response
                       /\ UNCHANGED model
    /\ UNCHANGED <<entities, req, page, apistatic>>

\* return workload_manager().get_logs(workload_id=deployment.id)
LogsReturn ==
    /\ resource = PIPELINE_DEPLOYMENT
    /\ api_pc = "logs"
    /\ calls' = Append(calls, Call("get_logs", NULL, model.fetched, TRUE))
    /\ response' = "200"
    /\ api_pc' = "done"
    /\ UNCHANGED <<entities, req, model, page, apistatic>>

\* The handler has returned or raised: the response goes to the client and
\* the request's objects are gone.
Respond ==
    /\ api_pc = "done"
    /\ api_pc' = "idle"
    /\ req' = NoRequest
    /\ model' = NoModel
    /\ calls' = <<>>
    /\ response' = "none"
    /\ page' = {}
    /\ UNCHANGED <<entities, apistatic>>

(* ---- code_repositories_endpoints.py ---- *)

create_code_repository ==
    CreateResolve(CODE_REPOSITORY) \/ CreateDelegate(CODE_REPOSITORY)

list_code_repositories ==
    ListResolve(CODE_REPOSITORY) \/ ListDelegate(CODE_REPOSITORY)

get_code_repository == GetEntity(CODE_REPOSITORY)

update_code_repository == UpdateEntity(CODE_REPOSITORY)

delete_code_repository == DeleteEntity(CODE_REPOSITORY)

(* ---- pipeline_deployments_endpoints.py ---- *)

create_deployment ==
    CreateResolve(PIPELINE_DEPLOYMENT) \/ CreateDelegate(PIPELINE_DEPLOYMENT)

list_deployments ==
    ListResolve(PIPELINE_DEPLOYMENT) \/ ListDelegate(PIPELINE_DEPLOYMENT)

get_deployment == GetEntity(PIPELINE_DEPLOYMENT)

delete_deployment == DeleteEntity(PIPELINE_DEPLOYMENT)

deployment_logs == LogsFetch \/ LogsReturn

InitApi ==
    /\ workspace \in WorkspaceTables
    /\ MigrationIdle
    /\ resource \in {CODE_REPOSITORY, PIPELINE_DEPLOYMENT}
    /\ workload_manager_enabled \in BOOLEAN
    /\ entities = EmptyTable
    /\ req = NoRequest
    /\ model = NoModel
    /\ api_pc = "idle"
    /\ calls = <<>>
    /\ response = "none"
    /\ page = {}

NextApi ==
    \/ Receive
    \/ Authorize
    \/ create_code_repository
    \/ list_code_repositories
    \/ get_code_repository
    \/ update_code_repository
    \/ delete_code_repository
    \/ create_deployment
    \/ list_deployments
    \/ get_deployment
    \/ delete_deployment
    \/ deployment_logs
    \/ Respond

SpecApi == InitApi /\ [][NextApi]_vars

InitMigration ==
    /\ workspace \in WorkspaceTables
    /\ user \in SUBSET UserIds
    /\ artifact \in BaseArtifactTables
    /\ columns = BaseColumns
    /\ nonnull = {"id"}
    /\ fks = {}
    /\ env \in {UNSET, "custom"}
    /\ version = down_revision
    /\ pc = "idle"
    /\ default_workspace_id = NULL
    /\ outcome = "none"
    /\ hist = NoHist
    /\ ApiIdle

NextMigration ==
    \/ UpgradeAddColumns
    \/ UpgradeLookup
    \/ UpgradeRaise
    \/ UpgradeBackfill
    \/ UpgradeTighten
    \/ Downgrade
    \/ InsertArtifact
    \/ \E w \in WsIds : DeleteWorkspace(w)
    \/ \E u \in UserIds : DeleteUser(u)

SpecMigration == InitMigration /\ [][NextMigration]_vars

(* --------------------------- migration claims ------------------------- *)

\* The name of the default workspace: the environment variable's value if
\* it is set, otherwise the built-in name.
DefaultName == IF env = UNSET THEN "default" ELSE env

\* The id of the workspace with the default name, NULL if there is none.
DefaultWorkspaceId ==
    IF \E w \in DOMAIN workspace : workspace[w] = DefaultName
    THEN CHOOSE w \in DOMAIN workspace : workspace[w] = DefaultName
    ELSE NULL

\* C1: in upgrade(), with a default workspace present, no artifact row has a
\* null workspace_id at the step that makes the column non-nullable, the
\* column becomes non-nullable only in a step that starts with every row
\* assigned the default workspace's id, and when upgrade() completes every
\* artifact row has workspace_id equal to the default workspace's id.
C1_BackfillBeforeTighten ==
    [][/\ pc = "tighten" =>
              \A a \in DOMAIN artifact : artifact[a].workspace_id # NULL
       /\ "workspace_id" \in nonnull' \ nonnull =>
              /\ DefaultWorkspaceId # NULL
              /\ \A a \in DOMAIN artifact :
                     artifact[a].workspace_id = DefaultWorkspaceId
       /\ (pc = "tighten" /\ outcome' = "upgraded") =>
              /\ DefaultWorkspaceId' \in DOMAIN workspace'
              /\ \A a \in DOMAIN artifact' :
                     artifact'[a].workspace_id = DefaultWorkspaceId'
              /\ DOMAIN artifact' = DOMAIN artifact]_vars

\* C1 witness: upgrade() has just completed on a full artifact table, with
\* the default workspace's name taken from the environment variable.
C1_Witness ==
    /\ outcome = "upgraded"
    /\ hist.stage = "up1"
    /\ env # UNSET
    /\ DOMAIN artifact = ArtIds
    /\ "workspace_id" \in nonnull
    /\ \A a \in ArtIds : artifact[a].workspace_id = DefaultWorkspaceId

\* C2: if no workspace row has the default name, upgrade() raises and the
\* artifact table is left as it was before upgrade() started: no
\* workspace_id or user_id column, no row updated, no constraint created.
C2_AbortLeavesTableUntouched ==
    outcome = "no_default_workspace" =>
        /\ columns = BaseColumns
        /\ fks = {}
        /\ nonnull = {"id"}
        /\ \A a \in DOMAIN artifact : DOMAIN artifact[a] = {"name"}

\* C3: once upgrade() has completed, through any workspace deletions, user
\* deletions and artifact insertions, every artifact row references an
\* existing workspace; deleting a workspace deletes exactly the artifact rows
\* that reference it, and deleting a user keeps every row and its
\* workspace_id and sets user_id to null on the rows that referenced it.
C3_ReferentialActions ==
    [][/\ version' = revision =>
              \A a \in DOMAIN artifact' :
                  /\ artifact'[a].workspace_id \in DOMAIN workspace'
                  /\ artifact'[a].user_id \in user' \cup {NULL}
       /\ (version = revision /\ version' = revision) =>
              /\ \A w \in DOMAIN workspace \ DOMAIN workspace' :
                     artifact' =
                         [a \in {x \in DOMAIN artifact :
                                    artifact[x].workspace_id # w} |->
                             artifact[a]]
              /\ \A u \in user \ user' :
                     /\ DOMAIN artifact' = DOMAIN artifact
                     /\ \A a \in DOMAIN artifact :
                            artifact'[a] =
                                [artifact[a] EXCEPT
                                    !.user_id = IF @ = u THEN NULL ELSE @]]_vars

\* C3 witness: after upgrade(), a user that an artifact row referenced has
\* been deleted; the row is still there, in its workspace, with no user.
C3_Witness ==
    /\ version = revision
    /\ outcome = "user_deleted"
    /\ user = {}
    /\ \E a \in DOMAIN artifact :
           /\ artifact[a].user_id = NULL
           /\ artifact[a].workspace_id \in DOMAIN workspace
           /\ artifact[a].workspace_id # DefaultWorkspaceId

\* C4: downgrade() after a successful upgrade() restores the artifact table
\* of before the upgrade (no workspace_id, no user_id, neither foreign key,
\* the same rows with the same values in the other columns), and a second
\* upgrade() then succeeds with the result of the first.
C4_RoundTrip ==
    /\ hist.stage = "down" =>
           /\ artifact = hist.pre
           /\ columns = BaseColumns
           /\ fks = {}
           /\ nonnull = {"id"}
           /\ version = down_revision
    /\ (hist.stage = "run2" /\ pc = "check") => default_workspace_id # NULL
    /\ (hist.stage = "run2" /\ pc = "idle") => outcome = "upgraded"
    /\ hist.stage = "up2" =>
           /\ artifact = hist.first
           /\ columns = BaseColumns \cup AddedColumns
           /\ fks = {fk_artifact_workspace_id_workspace,
                     fk_artifact_user_id_user}
           /\ nonnull = {"id", "workspace_id"}
           /\ version = revision

\* C4 witness: upgrade, downgrade and upgrade again on a full artifact table.
C4_Witness ==
    /\ hist.stage = "up2"
    /\ DOMAIN hist.pre = ArtIds
    /\ DOMAIN artifact = ArtIds

(* ------------------------------ API claims ---------------------------- *)

\* The positions in the call log of the calls to `fn`.
CallsOf(fn) == {i \in DOMAIN calls : calls[i].fn = fn}

\* Workspace w is the one the URL's workspace_name_or_id names.
Resolves(u, w) ==
    /\ w \in DOMAIN workspace
    /\ u.kind = "id" => w = u.id
    /\ u.kind = "name" => workspace[w] = u.name
    /\ u.kind # "none"

\* A successful get_workspace call comes before call i.
ResolvedBefore(i) ==
    \E j \in CallsOf("get_workspace") : j < i /\ calls[j].ok

C6_MismatchIsRejected ==
    (/\ resource = CODE_REPOSITORY
     /\ req.op = "create"
     /\ api_pc = "done"
     /\ \E i \in CallsOf("authorize") : calls[i].ok
     /\ \E w \in DOMAIN workspace :
            Resolves(req.url, w) /\ w # req.workspace)
        => /\ response = "403"
           /\ CallsOf("create") = {}

\* C7: a list request on the workspace-scoped path has its filter scoped to
\* the id of the workspace W the URL resolves to before the store's list
\* method is called, so every entity of the returned page belongs to W; with
\* no workspace in the URL the filter's scope is the one the caller gave.
C7_ListWorkspaceScope ==
    req.op = "list" =>
        /\ req.url.kind # "none" =>
               /\ \A i \in CallsOf("list") :
                      Resolves(req.url, calls[i].ws) /\ ResolvedBefore(i)
               /\ \A x \in page :
                      /\ x \in DOMAIN entities
                      /\ Resolves(req.url, entities[x].workspace)
        /\ req.url.kind = "none" =>
               /\ CallsOf("get_workspace") = {}
               /\ model.scope = req.scope
               /\ \A i \in CallsOf("list") : calls[i].ws = req.scope

\* C7 witness: a list on the scoped path returned a non-empty page while the
\* store also holds an entity of another workspace and the caller's own
\* filter scope named that other workspace.
C7_Witness ==
    /\ api_pc = "done"
    /\ req.op = "list"
    /\ req.url.kind = "id"
    /\ response = "200"
    /\ page # {}
    /\ req.scope \notin {NULL, req.url.id}
    /\ \E x \in DOMAIN entities : entities[x].workspace = req.scope

\* C8: the logs route exists only with the workload-manager flag enabled;
\* get_logs is called only after the permission-checked get of the
\* deployment has succeeded, with that deployment's id; a missing deployment
\* or a denied permission never leads to a get_logs call.
C8_LogsAfterCheckedFetch ==
    /\ (req.op = "logs" /\ ~workload_manager_enabled) =>
           /\ calls = <<>>
           /\ api_pc = "done" => response = "no_route"
    /\ \A i \in CallsOf("get_logs") :
           /\ workload_manager_enabled
           /\ resource = PIPELINE_DEPLOYMENT
           /\ req.op = "logs"
           /\ calls[i].id = req.id
           /\ req.id \in DOMAIN entities
           /\ \E j \in CallsOf("get") :
                  j < i /\ calls[j].ok /\ calls[j].id = calls[i].id
           /\ \E j \in CallsOf("verify_permission") :
                  j < i /\ calls[j].ok /\ calls[j].id = calls[i].id
    /\ (req.op = "logs" /\ response \in {"401", "403", "404", "no_route"}) =>
           CallsOf("get_logs") = {}

\* C8 witness: with the flag enabled, the logs of an existing deployment
\* were returned.
C8_Witness ==
    /\ workload_manager_enabled
    /\ req.op = "logs"
    /\ response = "200"
    /\ CallsOf("get_logs") # {}

\* The URL names a workspace and no workspace has that id or name.
Unresolvable(u) ==
    u.kind # "none" /\ ~\E w \in DOMAIN workspace : Resolves(u, w)

\* C9: a create or list request is authenticated, then its workspace is
\* resolved, then the permission-checked helper and the store are called; if
\* the URL's workspace does not resolve, the helper and the store method
\* are not called, the store is unchanged and the response is an error.
C9_ResolveBeforeDelegate ==
    [][req.op \in {"create", "list"} =>
          /\ \A i \in CallsOf("verify_permission") \cup CallsOf("create")
                      \cup CallsOf("list") \cup CallsOf("get_workspace") :
                 /\ calls[1].fn = "authorize" /\ calls[1].ok
                 /\ i > 1
          /\ req.url.kind # "none" =>
                 \A i \in CallsOf("verify_permission") \cup CallsOf("create")
                          \cup CallsOf("list") : ResolvedBefore(i)
          /\ Unresolvable(req.url) =>
                 /\ CallsOf("verify_permission") \cup CallsOf("create")
                        \cup CallsOf("list") = {}
                 /\ api_pc = "done" => response \in {"401", "404"}
                 /\ (api_pc = "done" /\ CallsOf("get_workspace") # {}) =>
                        response = "404"
                 /\ page = {}
                 /\ entities' = entities]_vars

\* C9 witness: a create on the scoped path named a workspace that does not
\* exist; after authentication only get_workspace was called and the
\* request ended in 404, with the store holding what it held.
C9_Witness ==
    /\ api_pc = "done"
    /\ req.op = "create"
    /\ Unresolvable(req.url)
    /\ response = "404"
    /\ Len(calls) = 2
    /\ calls[2].fn = "get_workspace"
    /\ entities # EmptyTable

\* C10: the deployment router has no update route, so no request to it
\* modifies an existing deployment: a deployment keeps its value from its
\* creation to its deletion, only create and delete requests change the set
\* of deployments, and list, get and logs requests leave it unchanged.
C10_DeploymentsNeverModified ==
    [][resource = PIPELINE_DEPLOYMENT =>
          /\ \A d \in DOMAIN entities \cap DOMAIN entities' :
                 entities'[d] = entities[d]
          /\ entities' # entities => req.op \in {"create", "delete"}
          /\ req.op \in {"list", "get", "logs"} => entities' = entities
          /\ (req.op = "update" /\ api_pc = "done") =>
                 response = "no_route" /\ calls = <<>>]_vars

\* C10 witness: an update request for an existing deployment found no route.
C10_Witness ==
    /\ resource = PIPELINE_DEPLOYMENT
    /\ api_pc = "done"
    /\ req.op = "update"
    /\ req.id \in DOMAIN entities
    /\ entities[req.id].name # req.name
    /\ response = "no_route"

====
